---- MODULE Spec2Model ----
(***************************************************************************)
(* Model of src/app.py: the sales-order pipeline that loads a sheet,       *)
(* coerces its date columns, expands Item_Qty_Details into line-item rows, *)
(* drops rows without critical dates, derives fields and computes KPIs.    *)
(*                                                                         *)
(* Conventions.  A missing value (None, NaN, NaT) is the empty tuple Null  *)
(* and a present scalar v is the 1-tuple <<v>>.  Text cells are sequences  *)
(* of tokens: one-character tokens for digits, ".", " ", "|" and "\n", and *)
(* whole-word tokens for labels and names.  Dates are day numbers.         *)
(* Quantities are kept in tenths (the float 1.5 is 15) and percentages in  *)
(* tenths of a percent, so that the model stays in the integers.           *)
(***************************************************************************)
EXTENDS Integers, Sequences, FiniteSets, TLC

\* Bounds of the model.
MaxRows == 2
MaxLines == 2

\* The day the script runs on (pd.Timestamp.today()).
Today == 100

----------------------------------------------------------------------------
\* Missing values and scalars.

Null == <<>>

Val(x) == <<x>>

IsNull(x) == x = Null

\* pd.to_datetime(col, errors='coerce'): a cell that holds a date becomes
\* that date, anything else (blank, unparseable text) becomes NaT.
ToDatetime(cell) == IF cell.kind = "date" THEN Val(cell.day) ELSE Null

----------------------------------------------------------------------------
\* Text primitives over token sequences.

Digits == {"0", "1", "2", "3", "4", "5", "6", "7", "8", "9"}

DigitVal(c) ==
    CASE c = "0" -> 0 [] c = "1" -> 1 [] c = "2" -> 2 [] c = "3" -> 3
      [] c = "4" -> 4 [] c = "5" -> 5 [] c = "6" -> 6 [] c = "7" -> 7
      [] c = "8" -> 8 [] c = "9" -> 9

NumChars == Digits \cup {"."}

\* str(cell): a blank cell reads as NaN and prints as the text "nan".
Str(cell) == IF IsNull(cell) THEN <<"nan">> ELSE cell

\* s.split(sep): always at least one part; "".split(sep) is [""].
RECURSIVE Split(_, _)
Split(s, sep) ==
    IF \A i \in 1..Len(s) : s[i] # sep
    THEN <<s>>
    ELSE LET i == CHOOSE k \in 1..Len(s) :
                      s[k] = sep /\ \A j \in 1..(k - 1) : s[j] # sep
         IN  <<SubSeq(s, 1, i - 1)>> \o Split(SubSeq(s, i + 1, Len(s)), sep)

\* s.strip(): surrounding whitespace removed.
RECURSIVE Strip(_)
Strip(s) ==
    IF s = <<>> THEN s
    ELSE IF Head(s) = " " THEN Strip(Tail(s))
    ELSE IF s[Len(s)] = " " THEN Strip(SubSeq(s, 1, Len(s) - 1))
    ELSE s

\* The position after the run of whitespace that starts at i (\s*).
RECURSIVE SkipSpace(_, _)
SkipSpace(s, i) ==
    IF i <= Len(s) /\ s[i] = " " THEN SkipSpace(s, i + 1) ELSE i

\* The longest run of digits and dots that starts at i ([\d\.]+, greedy).
RECURSIVE NumRun(_, _)
NumRun(s, i) ==
    IF i <= Len(s) /\ s[i] \in NumChars
    THEN <<s[i]>> \o NumRun(s, i + 1)
    ELSE <<>>

\* re.search(label + r'\s*([\d\.]+)', item): group(1) of the leftmost match,
\* or Null when the pattern matches nowhere.
ReSearch(label, item) ==
    LET hits == {i \in 1..Len(item) :
                    item[i] = label /\ NumRun(item, SkipSpace(item, i + 1)) # <<>>}
    IN  IF hits = {} THEN Null
        ELSE LET i == CHOOSE k \in hits : \A j \in hits : k <= j
             IN  Val(NumRun(item, SkipSpace(item, i + 1)))

\* The integer written by a sequence of digits ("" is 0).
RECURSIVE DigitsToInt(_)
DigitsToInt(ds) ==
    IF ds = <<>> THEN 0
    ELSE 10 * DigitsToInt(SubSeq(ds, 1, Len(ds) - 1)) + DigitVal(ds[Len(ds)])

\* float(text) for a text of digits and dots: a ValueError unless the text
\* has at least one digit and at most one dot.  The value is in tenths,
\* truncated after the first decimal.
Float(text) ==
    LET dots   == {i \in 1..Len(text) : text[i] = "."}
        digits == {i \in 1..Len(text) : text[i] \in Digits}
    IN  IF Cardinality(dots) > 1 \/ digits = {}
        THEN [ok |-> FALSE, val |-> 0]
        ELSE IF dots = {}
        THEN [ok |-> TRUE, val |-> 10 * DigitsToInt(text)]
        ELSE LET d    == CHOOSE i \in dots : TRUE
                 frac == SubSeq(text, d + 1, Len(text))
             IN  [ok  |-> TRUE,
                  val |-> 10 * DigitsToInt(SubSeq(text, 1, d - 1))
                          + (IF frac = <<>> THEN 0 ELSE DigitVal(frac[1]))]

\* float(m.group(1)) if m else 0
QtyOf(m) == IF IsNull(m) THEN [ok |-> TRUE, val |-> 0] ELSE Float(m[1])

----------------------------------------------------------------------------
\* The sheets the model uploads.

LineA ==
    <<"WidgetA", "|", "PO Qty:", " ", "3", "|", "Supplied Qty:", " ", "3", "|", "x">>

LineShort == <<"WidgetC", "|", "PO Qty:", " ", "2">>

LineNoLabel == <<" ", "WidgetD", " ", "|", "a", "|", "b", "|", "c">>

LineDot ==
    <<"WidgetE", "|", "PO Qty:", " ", ".", "|",
      "Supplied Qty:", " ", "1", ".", "2", ".", "3", "|", "x">>

Lines == {LineA, LineShort, LineNoLabel, LineDot}

RECURSIVE Join(_)
Join(ls) ==
    IF Len(ls) = 1 THEN ls[1] ELSE ls[1] \o <<"\n">> \o Join(Tail(ls))

\* An Item_Qty_Details cell of n lines; the blank cell is read as NaN.
CellOf(ls) == IF ls = <<>> THEN Null ELSE Join(ls)

Cells(L) == {CellOf(ls) : ls \in UNION {[1..n -> L] : n \in 0..MaxLines}}

DateCell(d) == [kind |-> "date", day |-> d]

BlankCell == [kind |-> "blank", day |-> 0]

JunkCell == [kind |-> "text", day |-> 0]

SoNos == {1, 2}

CustomerOf(so) == IF so = 1 THEN "Acme" ELSE "Bolt"

RawRow(so, po, sched, inv, value, cell) ==
    [So_No            |-> so,
     Customer_Name    |-> CustomerOf(so),
     Site_Address     |-> "Pune",
     Po_Date          |-> po,
     Scheduled_Date   |-> sched,
     Invoice_Dates    |-> inv,
     PO_Value         |-> value,
     Supplied_Value   |-> 0,
     Item_Qty_Details |-> cell]

\* Date profiles of the general sheets: complete, no scheduled date,
\* no parseable PO date, not invoiced yet.
Profiles ==
    {<<DateCell(1), DateCell(2), DateCell(2)>>,
     <<DateCell(1), BlankCell,   DateCell(2)>>,
     <<JunkCell,    DateCell(2), DateCell(2)>>,
     <<DateCell(1), DateCell(2), BlankCell>>}

Rows ==
    {RawRow(so, p[1], p[2], p[3], v, c) :
        so \in SoNos, p \in Profiles, v \in {0, 100}, c \in Cells(Lines)}

\* Rows that vary every date column, with a blank or a one-line item cell.
DateRows ==
    {RawRow(1, po, sched, inv, 100, c) :
        po \in {JunkCell, DateCell(1)},
        sched \in {BlankCell, DateCell(2)},
        inv \in {BlankCell, DateCell(2), DateCell(3)},
        c \in {Null, LineA}}

\* The sheets of at most MaxRows rows drawn from R.
Sheets(R) == UNION {[1..n -> R] : n \in 0..MaxRows}

\* The sheet with its order ids replaced by the row numbers.
Renumbered(t) ==
    [i \in 1..Len(t) |-> [t[i] EXCEPT !.So_No = i, !.Customer_Name = CustomerOf(i)]]

----------------------------------------------------------------------------
\* The script's state.

VARIABLES
    uploaded_file,   \* st.file_uploader's result: Null (None) or Val(sheet)
    df,              \* the raw table
    clean_df,        \* the line-item table: [columns, rows]
    kpi,             \* the scalars of the KPI section
    monthly_sales,   \* Order_Month -> summed PO_Value of the line-item rows
    defined,         \* the names the run has assigned so far
    error,           \* "none", or the exception that ended the run
    pc               \* the statement group the run is at

vars == <<uploaded_file, df, clean_df, kpi, monthly_sales, defined, error, pc>>

NoFrame == [columns |-> {}, rows |-> <<>>]

NoKpi ==
    [total_sales |-> 0, total_orders |-> 0, avg_lead_time |-> Null,
     on_time_perc |-> 0, top_20perc_customers_value |-> 0, total_value |-> 0,
     pending_value |-> 0, contribution |-> Null]

RECURSIVE SumSeq(_)
SumSeq(s) == IF s = <<>> THEN 0 ELSE Head(s) + SumSeq(Tail(s))

RECURSIVE Flatten(_)
Flatten(ss) == IF ss = <<>> THEN <<>> ELSE Head(ss) \o Flatten(Tail(ss))

Column(rows, col) == [i \in 1..Len(rows) |-> rows[i][col]]

----------------------------------------------------------------------------
\* Lines 36-38: the three date columns are coerced.
CleanDates(sheet) ==
    [i \in 1..Len(sheet) |->
        [sheet[i] EXCEPT !.Po_Date        = ToDatetime(@),
                         !.Scheduled_Date = ToDatetime(@),
                         !.Invoice_Dates  = ToDatetime(@)]]

\* Lines 52-53: the lines of a row's item cell.
ItemDetails(row) == Split(Str(row.Item_Qty_Details), "\n")

\* Line 55: the lines that are expanded.
WellFormed(item) == Len(Split(item, "|")) >= 4

\* Lines 57-60: a line's two quantities; ok is FALSE when float() raises.
PoQty(item) == QtyOf(ReSearch("PO Qty:", item))

SuppliedQty(item) == QtyOf(ReSearch("Supplied Qty:", item))

\* Lines 62-65: the line-item row of one expanded line.
NewRow(row, item) ==
    row @@ [Product_Name |-> Strip(Split(item, "|")[1]),
            PO_Qty       |-> PoQty(item).val,
            Supplied_Qty |-> SuppliedQty(item).val]

\* Lines 53-66 for one raw row.
ExpandRow(row) ==
    LET items == SelectSeq(ItemDetails(row), WellFormed)
    IN  [i \in 1..Len(items) |-> NewRow(row, items[i])]

\* A float() of lines 59-60 raises on some expanded line of the table.
ExpansionRaises(table) ==
    \E i \in 1..Len(table) :
        \E j \in 1..Len(ItemDetails(table[i])) :
            LET item == ItemDetails(table[i])[j]
            IN  WellFormed(item) /\ (~PoQty(item).ok \/ ~SuppliedQty(item).ok)

\* Lines 49-68: pd.DataFrame(expanded_rows); an empty list gives a frame
\* without columns.
Expanded(table) ==
    LET rows == Flatten([i \in 1..Len(table) |-> ExpandRow(table[i])])
    IN  [columns |-> IF rows = <<>> THEN {} ELSE DOMAIN rows[1], rows |-> rows]

----------------------------------------------------------------------------
\* Derived fields (lines 81-113).

CriticalDates == {"Po_Date", "Scheduled_Date"}

\* Line 81: dropna(subset=[...]) keeps the rows with every critical date.
HasCriticalDates(row) == \A col \in CriticalDates : ~IsNull(row[col])

\* Timestamp subtraction and .dt.days: NaT on either side gives NaN.
DaysBetween(later, earlier) ==
    IF IsNull(later) \/ IsNull(earlier) THEN Null ELSE Val(later[1] - earlier[1])

\* A comparison with NaT on either side is False.
DateLE(a, b) == ~IsNull(a) /\ ~IsNull(b) /\ a[1] <= b[1]

\* DeliveryStatus with the comparison made strict: a delivery on the
\* scheduled day is no longer on time.
DeliveryStatusStrict(row) ==
    IF DateLE(row.Invoice_Dates, row.Scheduled_Date)
       /\ row.Invoice_Dates # row.Scheduled_Date
    THEN "On-Time" ELSE "Delayed"

\* Lines 89-92.
DeliveryStatus(row) ==
    IF DateLE(row.Invoice_Dates, row.Scheduled_Date) THEN "On-Time" ELSE "Delayed"

\* Lines 111-113.
OrderStatus(row) == IF ~IsNull(row.Invoice_Dates) THEN "Closed" ELSE "Open"

\* Lines 94-96, on a calendar of 30-day months.
OrderMonth(row) == (row.Po_Date[1] - 1) \div 30

OrderQuarter(row) == (row.Po_Date[1] - 1) \div 90

OrderYear(row) == (row.Po_Date[1] - 1) \div 360

\* Lines 99-102: the customer's latest invoice date, NaT when there is none.
LastInvoiceDate(rows, customer) ==
    LET ds == {rows[i].Invoice_Dates[1] :
                  i \in {k \in 1..Len(rows) : rows[k].Customer_Name = customer
                                              /\ ~IsNull(rows[k].Invoice_Dates)}}
    IN  IF ds = {} THEN Null ELSE Val(CHOOSE d \in ds : \A e \in ds : e <= d)

\* Lines 105-109: PO_Value / PO_Qty (PO_Qty is in tenths), truncated.
AvgOrderValue(row) ==
    IF row.PO_Qty > 0 THEN (row.PO_Value * 10) \div row.PO_Qty ELSE 0

DerivedColumns ==
    {"Lead_Time", "Schedule_Delay", "Delivery_Status", "Order_Month", "Order_Year",
     "Order_Quarter", "Last_Invoice_Date", "Dormancy_Days", "Avg_Order_Value",
     "Order_Status"}

WithDerived(rows, row) ==
    row @@ [Lead_Time         |-> DaysBetween(row.Invoice_Dates, row.Po_Date),
            Schedule_Delay    |-> DaysBetween(row.Invoice_Dates, row.Scheduled_Date),
            Delivery_Status   |-> DeliveryStatus(row),
            Order_Month       |-> OrderMonth(row),
            Order_Year        |-> OrderYear(row),
            Order_Quarter     |-> OrderQuarter(row),
            Last_Invoice_Date |-> LastInvoiceDate(rows, row.Customer_Name),
            Dormancy_Days     |-> DaysBetween(Val(Today),
                                              LastInvoiceDate(rows, row.Customer_Name)),
            Avg_Order_Value   |-> AvgOrderValue(row),
            Order_Status      |-> OrderStatus(row)]

----------------------------------------------------------------------------
\* The KPI section (lines 118-137).

\* Line 118: df['PO_Value'].sum() over the raw table.
TotalSales(table) == SumSeq(Column(table, "PO_Value"))

\* Line 119.
TotalOrders(table) == Cardinality({table[i].So_No : i \in 1..Len(table)})

\* Line 127: the raw rows without an invoice date.
IsPending(row) == IsNull(row.Invoice_Dates)

PendingValue(table) == SumSeq(Column(SelectSeq(table, IsPending), "PO_Value"))

\* Line 120: the mean of the defined lead times in tenths, NaN when none.
HasLeadTime(row) == ~IsNull(row.Lead_Time)

AvgLeadTime(rows) ==
    LET lts == SelectSeq(rows, HasLeadTime)
    IN  IF lts = <<>> THEN Null
        ELSE Val((10 * SumSeq([i \in 1..Len(lts) |-> lts[i].Lead_Time[1]])) \div Len(lts))

\* Line 121: the share of On-Time rows in tenths of a percent, 0 when empty.
IsOnTime(row) == row.Delivery_Status = "On-Time"

OnTimePerc(rows) ==
    IF rows = <<>> THEN 0 ELSE (1000 * Len(SelectSeq(rows, IsOnTime))) \div Len(rows)

\* Line 123: groupby('Customer_Name')['PO_Value'].sum()
Customers(rows) == {rows[i].Customer_Name : i \in 1..Len(rows)}

CustomerValue(rows, c) ==
    SumSeq([i \in 1..Len(rows) |->
               IF rows[i].Customer_Name = c THEN rows[i].PO_Value ELSE 0])

\* Line 124: int(len(...) * 0.2), the number of customers in the slice.
TopCount(n) == (n * 2) \div 10

\* The sum of the k largest customer values among cs (sort_values + slice).
RECURSIVE TopSum(_, _, _)
TopSum(rows, cs, k) ==
    IF k = 0 \/ cs = {} THEN 0
    ELSE LET c == CHOOSE x \in cs :
                      \A y \in cs : CustomerValue(rows, y) <= CustomerValue(rows, x)
         IN  CustomerValue(rows, c) + TopSum(rows, cs \ {c}, k - 1)

Top20Value(rows) ==
    TopSum(rows, Customers(rows), TopCount(Cardinality(Customers(rows))))

\* Line 125.
TotalValue(rows) == SumSeq(Column(rows, "PO_Value"))

\* Lines 136-137: top / total * 100 in tenths of a percent; 0.0 / 0.0 on
\* numpy scalars is NaN.
Contribution(top, total) ==
    IF total = 0 THEN Null ELSE Val((1000 * top) \div total)

Kpis(table, rows) ==
    [total_sales                |-> TotalSales(table),
     total_orders               |-> TotalOrders(table),
     avg_lead_time              |-> AvgLeadTime(rows),
     on_time_perc               |-> OnTimePerc(rows),
     top_20perc_customers_value |-> Top20Value(rows),
     total_value                |-> TotalValue(rows),
     pending_value              |-> PendingValue(table),
     contribution               |-> Contribution(Top20Value(rows), TotalValue(rows))]

\* Line 145: groupby('Order_Month')['PO_Value'].sum()
MonthlySales(rows) ==
    [m \in {rows[i].Order_Month : i \in 1..Len(rows)} |->
        SumSeq([i \in 1..Len(rows) |->
                   IF rows[i].Order_Month = m THEN rows[i].PO_Value ELSE 0])]

----------------------------------------------------------------------------
\* The run, statement group by statement group.

InitWith(sheets) ==
    /\ uploaded_file \in {Null} \cup {Val(t) : t \in sheets}
    /\ df = <<>>
    /\ clean_df = NoFrame
    /\ kpi = NoKpi
    /\ monthly_sales = <<>>
    /\ defined = {}
    /\ error = "none"
    /\ pc = "load"

Init == InitWith(Sheets(Rows))

InitDates == InitWith({Renumbered(t) : t \in Sheets(DateRows)})

\* Lines 25-44: without a file the body of the if is skipped and the run
\* goes on at line 355; with one the table is read and its columns are
\* coerced.
Load ==
    /\ pc = "load"
    /\ IF IsNull(uploaded_file)
       THEN /\ pc' = "product"
            /\ UNCHANGED <<df, defined>>
       ELSE /\ df' = CleanDates(uploaded_file[1])
            /\ defined' = defined \cup {"df"}
            /\ pc' = "expand"
    /\ UNCHANGED <<uploaded_file, clean_df, kpi, monthly_sales, error>>

\* Lines 49-68: the expansion loop and the frame built from its rows.
Expand ==
    /\ pc = "expand"
    /\ IF ExpansionRaises(df)
       THEN /\ error' = "ValueError"
            /\ pc' = "done"
            /\ UNCHANGED <<clean_df, defined>>
       ELSE /\ clean_df' = Expanded(df)
            /\ defined' = defined \cup {"clean_df"}
            /\ pc' = "ensure"
            /\ UNCHANGED error
    /\ UNCHANGED <<uploaded_file, df, kpi, monthly_sales>>

\* Lines 73-76: the date columns that exist are converted again; their
\* values already are timestamps or NaT.
EnsureDatetime ==
    /\ pc = "ensure"
    /\ pc' = "dropna"
    /\ UNCHANGED <<uploaded_file, df, clean_df, kpi, monthly_sales, defined, error>>

\* Line 81: a subset column the frame does not have is a KeyError.
DropMissing ==
    /\ pc = "dropna"
    /\ IF CriticalDates \subseteq clean_df.columns
       THEN /\ clean_df' = [clean_df EXCEPT !.rows = SelectSeq(@, HasCriticalDates)]
            /\ pc' = "calc"
            /\ UNCHANGED error
       ELSE /\ error' = "KeyError"
            /\ pc' = "done"
            /\ UNCHANGED clean_df
    /\ UNCHANGED <<uploaded_file, df, kpi, monthly_sales, defined>>

\* Lines 86-113.
CalcFields ==
    /\ pc = "calc"
    /\ clean_df' =
          [columns |-> clean_df.columns \cup DerivedColumns,
           rows    |-> [i \in 1..Len(clean_df.rows) |->
                           WithDerived(clean_df.rows, clean_df.rows[i])]]
    /\ pc' = "kpi"
    /\ UNCHANGED <<uploaded_file, df, kpi, monthly_sales, defined, error>>

\* Lines 118-137.
KpiSection ==
    /\ pc = "kpi"
    /\ kpi' = Kpis(df, clean_df.rows)
    /\ defined' = defined \cup {"kpi"}
    /\ pc' = "charts"
    /\ UNCHANGED <<uploaded_file, df, clean_df, monthly_sales, error>>

\* Line 145.
Charts ==
    /\ pc = "charts"
    /\ monthly_sales' = MonthlySales(clean_df.rows)
    /\ defined' = defined \cup {"monthly_sales"}
    /\ pc' = "more"
    /\ UNCHANGED <<uploaded_file, df, clean_df, kpi, error>>

\* The frames lines 151-349 build from the line-item table.
ChartFrames ==
    {"quarterly_sales", "monthly_so_count", "monthly_aov", "top_customers",
     "top_customers_qty", "top_products", "top_products_val", "customer_contrib",
     "region_contrib", "lead_time_month", "customer_order_count", "dormant_customers",
     "status_counts", "open_orders", "closed_orders", "monthly_load",
     "product_capacity"}

\* The columns of clean_df each statement group reads without testing
\* that they exist (lines 73-76 test first and read nothing else).
Reads(stage) ==
    CASE stage = "dropna"  -> CriticalDates
      [] stage = "calc"    -> {"Invoice_Dates", "Po_Date", "Scheduled_Date",
                               "Customer_Name", "PO_Qty", "PO_Value"}
      [] stage = "kpi"     -> {"Lead_Time", "Delivery_Status", "Customer_Name",
                               "PO_Value"}
      [] stage = "charts"  -> {"Order_Month", "PO_Value"}
      [] stage = "more"    -> {"Order_Quarter", "Order_Month", "PO_Value", "So_No",
                               "Avg_Order_Value", "Customer_Name", "PO_Qty",
                               "Product_Name", "Site_Address", "Lead_Time",
                               "Delivery_Status", "Dormancy_Days", "Order_Status",
                               "Po_Date", "Invoice_Dates"}
      [] stage = "product" -> {"Order_Month", "Product_Name", "Ordered_Qty"}
      [] OTHER             -> {}

\* The statement groups that read clean_df.
ReadingStages == {"ensure", "dropna", "calc", "kpi", "charts", "more", "product"}

\* Lines 151-349: the remaining charts of the if body.
MoreCharts ==
    /\ pc = "more"
    /\ defined' = defined \cup ChartFrames
    /\ pc' = "product"
    /\ UNCHANGED <<uploaded_file, df, clean_df, kpi, monthly_sales, error>>

\* Lines 355-425, at module level, so run with or without a file: the
\* first statement that touches clean_df (lines 362-364) is a NameError
\* when the name was never assigned and a KeyError when the frame lacks a
\* column it selects.  The grouped sums of a run that passes would be
\* assigned to product_trend, seasonality and product_speed.
ProductDemand ==
    /\ pc = "product"
    /\ pc' = "done"
    /\ IF "clean_df" \notin defined
       THEN /\ error' = "NameError"
            /\ UNCHANGED defined
       ELSE IF ~(Reads("product") \subseteq clean_df.columns)
       THEN /\ error' = "KeyError: Ordered_Qty"
            /\ UNCHANGED defined
       ELSE /\ defined' = defined \cup {"product_trend", "seasonality", "product_speed"}
            /\ UNCHANGED error
    /\ UNCHANGED <<uploaded_file, df, clean_df, kpi, monthly_sales>>

Next ==
    \/ Load
    \/ Expand
    \/ EnsureDatetime
    \/ DropMissing
    \/ CalcFields
    \/ KpiSection
    \/ Charts
    \/ MoreCharts
    \/ ProductDemand

Spec == Init /\ [][Next]_vars

SpecDates == InitDates /\ [][Next]_vars

----------------------------------------------------------------------------
\* Vocabulary of the properties.

\* The run went through the pipeline (load, expansion, date filter, derived
\* fields, KPIs, monthly sales) without an exception.
Completed == "monthly_sales" \in defined

\* The indices of the rows of a table that belong to order o.
RowsOf(table, o) == {i \in 1..Len(table) : table[i].So_No = o}

OrderIds(table) == {table[i].So_No : i \in 1..Len(table)}

\* The raw table deduplicated on So_No: the first row of each order.
FirstRow(table, o) ==
    table[CHOOSE i \in RowsOf(table, o) : \A j \in RowsOf(table, o) : i <= j]

RECURSIVE SumOver(_, _)
SumOver(S, f) ==
    IF S = {} THEN 0
    ELSE LET x == CHOOSE y \in S : TRUE IN f[x] + SumOver(S \ {x}, f)

\* The number of lines of a raw row that split into at least 4 parts.
WellFormedCount(row) == Len(SelectSeq(ItemDetails(row), WellFormed))

HasPoDate(row) == ~IsNull(row.Po_Date)

\* The least integer that is at least 0.2 * n.
CeilFifth(n) == (2 * n + 9) \div 10

----------------------------------------------------------------------------
\* C1: in a completed run, for every order with line-item rows, the revenue
\* values its line-item rows carry into the revenue sums (their PO_Value)
\* add up to the order's PO_Value when its total ordered quantity is
\* positive, and are all 0 when that total is 0.
C1_RevenueCountedOnce ==
    Completed =>
        \A o \in OrderIds(clean_df.rows) :
            LET rs  == RowsOf(clean_df.rows, o)
                qty == SumOver(rs, Column(clean_df.rows, "PO_Qty"))
                rev == SumOver(rs, Column(clean_df.rows, "PO_Value"))
            IN  IF qty > 0
                THEN rev = FirstRow(df, o).PO_Value
                ELSE \A i \in rs : clean_df.rows[i].PO_Value = 0

\* C2: in a completed run the total sales KPI and the pending value KPI are
\* the sums over the raw table deduplicated on So_No.
C2_OrderSumsDeduplicated ==
    Completed =>
        /\ kpi.total_sales =
              SumOver(OrderIds(df), [o \in OrderIds(df) |-> FirstRow(df, o).PO_Value])
        /\ kpi.pending_value =
              SumOver({o \in OrderIds(df) : IsPending(FirstRow(df, o))},
                      [o \in OrderIds(df) |-> FirstRow(df, o).PO_Value])

\* C3: in a completed run, every order whose raw rows all have a PO date
\* has as many line-item rows as its item cells have lines of at least
\* 4 parts.
C3_RowPerWellFormedLine ==
    Completed =>
        \A o \in OrderIds(df) :
            (\A i \in RowsOf(df, o) : HasPoDate(df[i])) =>
                Cardinality(RowsOf(clean_df.rows, o)) =
                    SumOver(RowsOf(df, o), [i \in 1..Len(df) |-> WellFormedCount(df[i])])

\* C4: in a completed run no line-item row lacks a PO date, and the raw rows
\* without a PO date add nothing to total sales, the order count and the
\* pending value: each KPI is what it is on the table without those rows.
C4_NoPoDateRowExcluded ==
    Completed =>
        /\ \A i \in 1..Len(clean_df.rows) : HasPoDate(clean_df.rows[i])
        /\ kpi.total_sales = TotalSales(SelectSeq(df, HasPoDate))
        /\ kpi.total_orders = TotalOrders(SelectSeq(df, HasPoDate))
        /\ kpi.pending_value = PendingValue(SelectSeq(df, HasPoDate))

\* C5: in a completed run, every well-formed line of a raw row that has a
\* PO date but lacks its scheduled date or its invoice date is in the
\* line-item table, with Schedule_Delay undefined, Delivery_Status Delayed,
\* and Lead_Time undefined when the invoice date is missing.
C5_OnlyPoDateRemoves ==
    Completed =>
        \A i \in 1..Len(df) :
            (/\ HasPoDate(df[i])
             /\ (IsNull(df[i].Scheduled_Date) \/ IsNull(df[i].Invoice_Dates))) =>
                \A j \in 1..Len(ExpandRow(df[i])) :
                    \E k \in 1..Len(clean_df.rows) :
                        LET r == clean_df.rows[k]
                        IN  /\ r.So_No = df[i].So_No
                            /\ r.Product_Name = ExpandRow(df[i])[j].Product_Name
                            /\ r.Scheduled_Date = df[i].Scheduled_Date
                            /\ r.Invoice_Dates = df[i].Invoice_Dates
                            /\ IsNull(r.Schedule_Delay)
                            /\ r.Delivery_Status = "Delayed"
                            /\ (IsNull(r.Invoice_Dates) => IsNull(r.Lead_Time))

\* C6: once the derived fields are on the table, every line-item row is
\* On-Time exactly when its invoice date and its scheduled date are present
\* and the invoice date is not after the scheduled date, and Delayed
\* otherwise; it is Closed exactly when its invoice date is present, and
\* Open otherwise; so every Open row is Delayed.
C6_StatusRule ==
    "Order_Status" \in clean_df.columns =>
        \A i \in 1..Len(clean_df.rows) :
            LET r == clean_df.rows[i]
                onTime == /\ r.Invoice_Dates # Null
                          /\ r.Scheduled_Date # Null
                          /\ r.Invoice_Dates[1] <= r.Scheduled_Date[1]
            IN  /\ r.Delivery_Status = (IF onTime THEN "On-Time" ELSE "Delayed")
                /\ r.Order_Status =
                      (IF r.Invoice_Dates # Null THEN "Closed" ELSE "Open")
                /\ (r.Order_Status = "Open" => r.Delivery_Status = "Delayed")

\* A run whose table holds a row delivered on its scheduled day (On-Time,
\* Closed) and a row not invoiced yet (Open, Delayed).
C6_Witness ==
    /\ "Order_Status" \in clean_df.columns
    /\ \E i \in 1..Len(clean_df.rows) :
           /\ clean_df.rows[i].Invoice_Dates = clean_df.rows[i].Scheduled_Date
           /\ clean_df.rows[i].Delivery_Status = "On-Time"
           /\ clean_df.rows[i].Order_Status = "Closed"
    /\ \E i \in 1..Len(clean_df.rows) :
           /\ IsNull(clean_df.rows[i].Invoice_Dates)
           /\ clean_df.rows[i].Delivery_Status = "Delayed"
           /\ clean_df.rows[i].Order_Status = "Open"

\* No raw row has a line of at least 4 parts.
NoLineItems(table) == \A i \in 1..Len(table) : WellFormedCount(table[i]) = 0

\* C7: a run on a sheet with rows, none of which yields a line item, ends
\* without the date filter raising, with an empty line-item table, its KPIs computed and its
\* orders counted.
C7_EmptyExpansionCompletes ==
    (pc = "done" /\ Len(df) >= 1 /\ NoLineItems(df)) =>
        /\ error # "KeyError"
        /\ clean_df.rows = <<>>
        /\ "kpi" \in defined
        /\ kpi.total_orders = TotalOrders(df)

\* C8: whenever the KPI section has run and the total value is 0, the
\* top-20% customer contribution is 0.
C8_ZeroTotalGivesZeroShare ==
    ("kpi" \in defined /\ kpi.total_value = 0) => kpi.contribution = Val(0)

\* C9: quantity extraction never ends the run: no run stops with the
\* ValueError of float().
C9_ExtractionNeverAborts == error # "ValueError"

\* C10: whenever the KPI section has run over N >= 1 customers, the top-20%
\* value is the sum of the ceiling(0.2 * N) largest customer values.
C10_TopCeilingFifth ==
    ("kpi" \in defined /\ Customers(clean_df.rows) # {}) =>
        kpi.top_20perc_customers_value =
            TopSum(clean_df.rows, Customers(clean_df.rows),
                   CeilFifth(Cardinality(Customers(clean_df.rows))))

\* C11: whenever the run is about to execute a statement group that reads
\* the line-item table, the table has been built in this run and holds
\* every column the group reads.
C11_ReadsAreProduced ==
    pc \in ReadingStages =>
        /\ "clean_df" \in defined
        /\ Reads(pc) \subseteq clean_df.columns

====
